---- MODULE Spec2Model ----
(***************************************************************************)
(* Gantt timeline layout of the Time Management System.                    *)
(*                                                                         *)
(* Instants.  A JavaScript Date is modelled as a record [day, ms]: the     *)
(* local calendar day counted from Monday 2024-01-01 (day 0) and the       *)
(* millisecond within that day.  The local zone is taken to have a fixed   *)
(* UTC offset, so every calendar day is MsPerDay long.                     *)
(*                                                                         *)
(* Pixels.  JavaScript numbers that hold pixel quantities are modelled as  *)
(* exact rationals [n, d] in lowest terms (d > 0); rounding of the         *)
(* floating-point division is not modelled.                                *)
(*                                                                         *)
(* Revisions.  The repository holds the layout utilities twice:            *)
(*   "views"   - hoursAggregation.ts:86-268 with the day/week/month/       *)
(*               quarter switch, used with the view buttons of             *)
(*               App.tsx:418-728;                                          *)
(*   "monthly" - ganttCalculations.ts:1-104, which always resolves the     *)
(*               current month, used with App.tsx:1-417 where the view is  *)
(*               fixed to the month.                                       *)
(* getWeekStart, getDaysBetween, getPixelsPerDay and calculateTaskPosition *)
(* are the same in both.                                                   *)
(***************************************************************************)
EXTENDS Integers, Sequences, FiniteSets, TLC

\* ------------------------------------------------------------------------
\* Bounds of the model
\* ------------------------------------------------------------------------

\* Number of tasks the chart is given at most.
MaxTasks == 2

\* Number of consecutive days, from FirstDay on, that pure-function inputs
\* (task dates, window bounds) are drawn from.
MaxDays == 4

\* ------------------------------------------------------------------------
\* Numbers
\* ------------------------------------------------------------------------

Max(a, b) == IF a > b THEN a ELSE b

Abs(a) == IF a < 0 THEN -a ELSE a

\* Math.ceil(a / b) for integers a and b > 0.
Ceil(a, b) == IF a % b = 0 THEN a \div b ELSE (a \div b) + 1

\* Math.floor(a / b) for integers a and b > 0.
Floor(a, b) == a \div b

RECURSIVE GCD(_, _)
GCD(a, b) == IF b = 0 THEN a ELSE GCD(b, a % b)

\* The rational n / d (d > 0) in lowest terms.
Rat(n, d) == LET g == GCD(Abs(n), d) IN [n |-> n \div g, d |-> d \div g]

RatInt(k) == [n |-> k, d |-> 1]

\* k * r for an integer k.
RatMul(k, r) == Rat(k * r.n, r.d)

RatLess(a, b) == a.n * b.d < b.n * a.d

RatLeq(a, b) == a.n * b.d <= b.n * a.d

\* Math.max on pixel quantities.
RatMax(a, b) == IF RatLess(a, b) THEN b ELSE a

\* ------------------------------------------------------------------------
\* Calendar (proleptic Gregorian, day 0 = Monday 2024-01-01)
\* ------------------------------------------------------------------------

Years == 2024..2026

IsLeap(y) == (y % 4 = 0 /\ y % 100 # 0) \/ y % 400 = 0

DaysInYear(y) == IF IsLeap(y) THEN 366 ELSE 365

\* Months are numbered 0..11 as in JavaScript.
DaysInMonth(y, m) ==
    IF m = 1 THEN (IF IsLeap(y) THEN 29 ELSE 28)
    ELSE IF m \in {3, 5, 8, 10} THEN 30 ELSE 31

RECURSIVE DaysBeforeYear(_)
DaysBeforeYear(y) == IF y <= 2024 THEN 0 ELSE DaysBeforeYear(y - 1) + DaysInYear(y - 1)

RECURSIVE DaysBeforeMonth(_, _)
DaysBeforeMonth(y, m) == IF m = 0 THEN 0 ELSE DaysBeforeMonth(y, m - 1) + DaysInMonth(y, m - 1)

\* Day number of the first day of month m of year y.
FirstOfMonth(y, m) == DaysBeforeYear(y) + DaysBeforeMonth(y, m)

\* Days the calendar covers: 2024-01-01 .. 2026-12-31.
CalendarDays == 0..(DaysBeforeYear(2027) - 1)

\* The year and the month each calendar day lies in, tabulated once.
YearTable ==
    [d \in CalendarDays |->
        CHOOSE y \in Years : DaysBeforeYear(y) <= d /\ d < DaysBeforeYear(y) + DaysInYear(y)]

MonthTable ==
    [d \in CalendarDays |->
        CHOOSE m \in 0..11 :
            /\ FirstOfMonth(YearTable[d], m) <= d
            /\ d < FirstOfMonth(YearTable[d], m) + DaysInMonth(YearTable[d], m)]

FirstOfMonthTable == [y \in 2024..2027 |-> [m \in 0..11 |-> FirstOfMonth(y, m)]]

YearOfDay(d) == YearTable[d]

MonthOfDay(d) == MonthTable[d]

\* ------------------------------------------------------------------------
\* JavaScript Date
\* ------------------------------------------------------------------------

MsPerDay == 1000 * 60 * 60 * 24

\* 09:00:00.000 and 23:59:59.999 as milliseconds of the day.
NineAM == 9 * 60 * 60 * 1000

EndOfDayMs == ((23 * 60 + 59) * 60 + 59) * 1000 + 999

Instant(d, ms) == [day |-> d, ms |-> ms]

\* a < b, a <= b on Dates (comparison of getTime()).
Before(a, b) == a.day < b.day \/ (a.day = b.day /\ a.ms < b.ms)

AtOrBefore(a, b) == ~Before(b, a)

getFullYear(t) == YearOfDay(t.day)

getMonth(t) == MonthOfDay(t.day)

\* Day of the month, 1..31.
getDate(t) == t.day - FirstOfMonthTable[getFullYear(t)][getMonth(t)] + 1

\* Day of the week, 0 = Sunday .. 6 = Saturday.
getDay(t) == (t.day + 1) % 7

\* Date.prototype.setDate: day n of t's month; n outside the month rolls
\* over into the neighbouring months.  The time of day is kept.
setDate(t, n) == Instant(FirstOfMonthTable[getFullYear(t)][getMonth(t)] + n - 1, t.ms)

\* Date.prototype.setHours(h, m, s, ms) on the same calendar day.
setHours(t, h, m, s, ms) == Instant(t.day, ((h * 60 + m) * 60 + s) * 1000 + ms)

\* new Date(year, monthIndex, day): midnight; a month index of 12 or more
\* rolls over into the following years, and day 0 is the last day of the
\* previous month.
NewDate(y, m, d) == Instant(FirstOfMonthTable[y + (m \div 12)][m % 12] + d - 1, 0)

\* |b.getTime() - a.getTime()| held as whole days plus milliseconds, so
\* that every intermediate value stays within 32 bits.
AbsDiff(a, b) ==
    LET lo == IF Before(b, a) THEN b ELSE a
        hi == IF Before(b, a) THEN a ELSE b
        dd == hi.day - lo.day
        dm == hi.ms - lo.ms
    IN  IF dm < 0 THEN [days |-> dd - 1, ms |-> dm + MsPerDay]
                  ELSE [days |-> dd, ms |-> dm]

\* ------------------------------------------------------------------------
\* Layout utilities
\* ------------------------------------------------------------------------

\* The value of an absent optional field, and of a null result.
Undefined == [undefined |-> TRUE]

Null == [null |-> TRUE]

\* Truthiness of an optional number as tested by `x ? a : b`:
\* undefined and 0 are falsy.  A present number is held as [hours |-> h].
TruthyNumber(v) == v # Undefined /\ v.hours # 0

\* Truthiness of an optional Date: every Date object is truthy.
TruthyDate(v) == v # Undefined

\* Sunday is not treated apart: the week of a Sunday starts the day after.
getWeekStart_SundayForward(date) ==
    LET day == getDay(date)
        diff == getDate(date) - day + 1
    IN  setHours(setDate(date, diff), 0, 0, 0, 0)

getWeekStart(date) ==
    LET day == getDay(date)
        diff == getDate(date) - day + (IF day = 0 THEN -6 ELSE 1)
    IN  setHours(setDate(date, diff), 0, 0, 0, 0)

\* The month after December is taken in the same year.
calculateTimelineRange_NoYearRollover(view, now) ==
    CASE view.type = "day" ->
            LET start == setHours(now, 0, 0, 0, 0)
            IN  [start |-> start, end |-> setDate(start, getDate(start) + 1)]
      [] view.type = "week" ->
            LET start == getWeekStart(now)
            IN  [start |-> start, end |-> setDate(start, getDate(start) + 7)]
      [] view.type = "month" ->
            [start |-> NewDate(getFullYear(now), getMonth(now), 1),
             end   |-> NewDate(getFullYear(now), (getMonth(now) + 1) % 12, 1)]
      [] view.type = "quarter" ->
            LET quarter == Floor(getMonth(now), 3)
            IN  [start |-> NewDate(getFullYear(now), quarter * 3, 1),
                 end   |-> NewDate(getFullYear(now), ((quarter + 1) * 3) % 12, 1)]
      [] OTHER ->
            [start |-> view.startDate, end |-> view.endDate]

\* The fallback resolves the current year instead of the view's range.
calculateTimelineRange_YearFromNow(view, now) ==
    CASE view.type = "day" ->
            LET start == setHours(now, 0, 0, 0, 0)
            IN  [start |-> start, end |-> setDate(start, getDate(start) + 1)]
      [] view.type = "week" ->
            LET start == getWeekStart(now)
            IN  [start |-> start, end |-> setDate(start, getDate(start) + 7)]
      [] view.type = "month" ->
            [start |-> NewDate(getFullYear(now), getMonth(now), 1),
             end   |-> NewDate(getFullYear(now), getMonth(now) + 1, 1)]
      [] view.type = "quarter" ->
            LET quarter == Floor(getMonth(now), 3)
            IN  [start |-> NewDate(getFullYear(now), quarter * 3, 1),
                 end   |-> NewDate(getFullYear(now), (quarter + 1) * 3, 1)]
      [] OTHER ->
            [start |-> NewDate(getFullYear(now), 0, 1),
             end   |-> NewDate(getFullYear(now) + 1, 0, 1)]

\* The day is taken from the view's startDate instead of the clock.
calculateTimelineRange_DayFromView(view, now) ==
    CASE view.type = "day" ->
            LET start == setHours(view.startDate, 0, 0, 0, 0)
            IN  [start |-> start, end |-> setDate(start, getDate(start) + 1)]
      [] view.type = "week" ->
            LET start == getWeekStart(now)
            IN  [start |-> start, end |-> setDate(start, getDate(start) + 7)]
      [] view.type = "month" ->
            [start |-> NewDate(getFullYear(now), getMonth(now), 1),
             end   |-> NewDate(getFullYear(now), getMonth(now) + 1, 1)]
      [] view.type = "quarter" ->
            LET quarter == Floor(getMonth(now), 3)
            IN  [start |-> NewDate(getFullYear(now), quarter * 3, 1),
                 end   |-> NewDate(getFullYear(now), (quarter + 1) * 3, 1)]
      [] OTHER ->
            [start |-> view.startDate, end |-> view.endDate]

\* calculateTimelineRange of the "views" revision; now is the value of
\* `new Date()` read inside the function.
calculateTimelineRange(view, now) ==
    CASE view.type = "day" ->
            LET start == setHours(now, 0, 0, 0, 0)
            IN  [start |-> start, end |-> setDate(start, getDate(start) + 1)]
      [] view.type = "week" ->
            LET start == getWeekStart(now)
            IN  [start |-> start, end |-> setDate(start, getDate(start) + 7)]
      [] view.type = "month" ->
            [start |-> NewDate(getFullYear(now), getMonth(now), 1),
             end   |-> NewDate(getFullYear(now), getMonth(now) + 1, 1)]
      [] view.type = "quarter" ->
            LET quarter == Floor(getMonth(now), 3)
            IN  [start |-> NewDate(getFullYear(now), quarter * 3, 1),
                 end   |-> NewDate(getFullYear(now), (quarter + 1) * 3, 1)]
      [] OTHER ->
            [start |-> view.startDate, end |-> view.endDate]

\* The end is left at 00:00 of the month's last day.
calculateTimelineRangeMonthly_LastDayMidnight(view, now) ==
    [start |-> setHours(NewDate(getFullYear(now), getMonth(now), 1), 0, 0, 0, 0),
     end   |-> NewDate(getFullYear(now), getMonth(now) + 1, 0)]

\* calculateTimelineRange of the "monthly" revision: the view is ignored.
calculateTimelineRangeMonthly(view, now) ==
    [start |-> setHours(NewDate(getFullYear(now), getMonth(now), 1), 0, 0, 0, 0),
     end   |-> setHours(NewDate(getFullYear(now), getMonth(now) + 1, 0), 23, 59, 59, 999)]

\* Without Math.abs: negative when end is before start.
getDaysBetween_Signed(start, end) ==
    LET diffTime == AbsDiff(start, end)
    IN  IF Before(end, start) THEN -diffTime.days
        ELSE diffTime.days + Ceil(diffTime.ms, MsPerDay)

\* Math.floor where the code has Math.ceil.
getDaysBetween_Floor(start, end) ==
    LET diffTime == AbsDiff(start, end)
    IN  diffTime.days + Floor(diffTime.ms, MsPerDay)

\* Math.ceil(diffTime / MsPerDay), diffTime = |end - start|.
getDaysBetween(start, end) ==
    LET diffTime == AbsDiff(start, end)
    IN  diffTime.days + Ceil(diffTime.ms, MsPerDay)

\* A negative day count is taken by its magnitude.
getPixelsPerDay_Magnitude(containerWidth, days) ==
    Rat(containerWidth, IF days = 0 THEN 1 ELSE Abs(days))

getPixelsPerDay(containerWidth, days) == Rat(containerWidth, Max(days, 1))

HoursPerDay == 8

DefaultDurationDays == 7

MinBarWidth == 50

RowMargin == 10

DefaultRowHeight == 60

\* Math.floor where the code has Math.ceil.
effectiveEndDate_Floor(task) ==
    IF TruthyDate(task.endDate)
    THEN task.endDate
    ELSE LET defaultDays == IF TruthyNumber(task.estimatedHours)
                            THEN Floor(task.estimatedHours.hours, HoursPerDay)
                            ELSE DefaultDurationDays
         IN  setDate(task.startDate, getDate(task.startDate) + defaultDays)

\* The end date calculateTaskPosition lays the task out with.
effectiveEndDate(task) ==
    IF TruthyDate(task.endDate)
    THEN task.endDate
    ELSE LET defaultDays == IF TruthyNumber(task.estimatedHours)
                            THEN Ceil(task.estimatedHours.hours, HoursPerDay)
                            ELSE DefaultDurationDays
         IN  setDate(task.startDate, getDate(task.startDate) + defaultDays)

\* The start is not clipped to the window.
taskStart_NoClip(task, timelineStart) == task.startDate

\* const taskStart = task.startDate > timelineStart ? task.startDate : timelineStart
taskStart(task, timelineStart) ==
    IF Before(timelineStart, task.startDate) THEN task.startDate ELSE timelineStart

\* The end is not clipped to the window.
taskEnd_NoClip(effEnd, timelineEnd) == effEnd

\* const taskEnd = effectiveEndDate < timelineEnd ? effectiveEndDate : timelineEnd
taskEnd(effEnd, timelineEnd) ==
    IF Before(effEnd, timelineEnd) THEN effEnd ELSE timelineEnd

\* <= and >= where the code has < and >.
outsideTimeline_Exclusive(task, effEnd, timelineStart, timelineEnd) ==
    AtOrBefore(effEnd, timelineStart) \/ AtOrBefore(timelineEnd, task.startDate)

\* effectiveEndDate < timelineStart || task.startDate > timelineEnd
outsideTimeline(task, effEnd, timelineStart, timelineEnd) ==
    Before(effEnd, timelineStart) \/ Before(timelineEnd, task.startDate)

\* The minimum width is left out.
barWidth_NoMinimum(taskDuration, pixelsPerDay) == RatMul(taskDuration, pixelsPerDay)

\* Math.max(taskDuration * pixelsPerDay, 50)
barWidth(taskDuration, pixelsPerDay) ==
    RatMax(RatMul(taskDuration, pixelsPerDay), RatInt(MinBarWidth))

\* effectiveEndDate is made to name task.startDate itself, not a copy.
effectiveEndDateObject_NoCopy(task) ==
    IF TruthyDate(task.endDate) THEN "endDate" ELSE "startDate"

\* The Date object the variable effectiveEndDate names: the task's own
\* endDate object, or the object `new Date(task.startDate)` creates.
effectiveEndDateObject(task) ==
    IF TruthyDate(task.endDate) THEN "endDate" ELSE "copy"

\* The Date objects passed to calculateTaskPosition as the call leaves
\* them.  The only statement that writes to a Date is
\* effectiveEndDate.setDate(...), in the branch of a task without endDate;
\* a write to an object that is not an argument leaves the arguments alone.
ArgumentsAfterTaskPosition(task, timelineStart, timelineEnd) ==
    LET objects == [startDate     |-> task.startDate,
                    endDate       |-> task.endDate,
                    timelineStart |-> timelineStart,
                    timelineEnd   |-> timelineEnd]
        written == effectiveEndDateObject(task)
    IN  IF TruthyDate(task.endDate) \/ written \notin DOMAIN objects
        THEN objects
        ELSE [objects EXCEPT ![written] = effectiveEndDate(task)]

calculateTaskPosition(task, timelineStart, timelineEnd, pixelsPerDay, rowIndex, rowHeight) ==
    LET effEnd == effectiveEndDate(task)
        start == taskStart(task, timelineStart)
        end == taskEnd(effEnd, timelineEnd)
        daysFromStart == getDaysBetween(timelineStart, start)
        taskDuration == getDaysBetween(start, end)
    IN  IF outsideTimeline(task, effEnd, timelineStart, timelineEnd)
        THEN Null
        ELSE [task   |-> task,
              x      |-> RatMul(daysFromStart, pixelsPerDay),
              width  |-> barWidth(taskDuration, pixelsPerDay),
              y      |-> rowIndex * rowHeight,
              height |-> rowHeight - RowMargin]

\* Math.floor where the code has Math.ceil for the weeks of the month.
generateTimelineHeaders_FloorWeeks(view, containerWidth, range) ==
    LET start == range.start
        days == getDaysBetween(range.start, range.end)
        pixelsPerDay == getPixelsPerDay(containerWidth, days)
        current == start
    IN  CASE view.type = "day" ->
                [i \in 1..24 |->
                    [date  |-> current,
                     label |-> [hour |-> i - 1],
                     x     |-> Rat((i - 1) * containerWidth, 24),
                     width |-> Rat(containerWidth, 24)]]
          [] view.type = "week" ->
                [i \in 1..7 |->
                    LET dayDate == setDate(current, getDate(start) + (i - 1))
                    IN  [date  |-> dayDate,
                         label |-> [weekday |-> getDay(dayDate), day |-> getDate(dayDate)],
                         x     |-> RatMul(i - 1, pixelsPerDay),
                         width |-> pixelsPerDay]]
          [] view.type = "month" ->
                LET weeksInMonth == Floor(days, 7)
                IN  [i \in 1..weeksInMonth |->
                        [date  |-> setDate(current, getDate(start) + (i - 1) * 7),
                         label |-> [week |-> i],
                         x     |-> RatMul(i - 1, Rat(containerWidth, weeksInMonth)),
                         width |-> Rat(containerWidth, weeksInMonth)]]
          [] view.type = "quarter" ->
                [i \in 1..3 |->
                    LET monthDate == NewDate(getFullYear(current), getMonth(start) + (i - 1), getDate(current))
                    IN  [date  |-> Instant(monthDate.day, current.ms),
                         label |-> [month |-> getMonth(monthDate)],
                         x     |-> RatMul(i - 1, Rat(containerWidth, 3)),
                         width |-> Rat(containerWidth, 3)]]
          [] OTHER ->
                [i \in 1..days |->
                    LET dayDate == setDate(current, getDate(start) + (i - 1))
                    IN  [date  |-> dayDate,
                         label |-> [month |-> getMonth(dayDate), day |-> getDate(dayDate)],
                         x     |-> RatMul(i - 1, pixelsPerDay),
                         width |-> pixelsPerDay]]

\* Header ticks of the "views" revision.  range is the window resolved by
\* the function's own call of calculateTimelineRange.  A label is held as
\* the values it is formatted from.
generateTimelineHeaders(view, containerWidth, range) ==
    LET start == range.start
        days == getDaysBetween(range.start, range.end)
        pixelsPerDay == getPixelsPerDay(containerWidth, days)
        current == start
    IN  CASE view.type = "day" ->
                [i \in 1..24 |->
                    [date  |-> current,
                     label |-> [hour |-> i - 1],
                     x     |-> Rat((i - 1) * containerWidth, 24),
                     width |-> Rat(containerWidth, 24)]]
          [] view.type = "week" ->
                [i \in 1..7 |->
                    LET dayDate == setDate(current, getDate(start) + (i - 1))
                    IN  [date  |-> dayDate,
                         label |-> [weekday |-> getDay(dayDate), day |-> getDate(dayDate)],
                         x     |-> RatMul(i - 1, pixelsPerDay),
                         width |-> pixelsPerDay]]
          [] view.type = "month" ->
                LET weeksInMonth == Ceil(days, 7)
                IN  [i \in 1..weeksInMonth |->
                        [date  |-> setDate(current, getDate(start) + (i - 1) * 7),
                         label |-> [week |-> i],
                         x     |-> RatMul(i - 1, Rat(containerWidth, weeksInMonth)),
                         width |-> Rat(containerWidth, weeksInMonth)]]
          [] view.type = "quarter" ->
                [i \in 1..3 |->
                    LET monthDate == NewDate(getFullYear(current), getMonth(start) + (i - 1), getDate(current))
                    IN  [date  |-> Instant(monthDate.day, current.ms),
                         label |-> [month |-> getMonth(monthDate)],
                         x     |-> RatMul(i - 1, Rat(containerWidth, 3)),
                         width |-> Rat(containerWidth, 3)]]
          [] OTHER ->
                [i \in 1..days |->
                    LET dayDate == setDate(current, getDate(start) + (i - 1))
                    IN  [date  |-> dayDate,
                         label |-> [month |-> getMonth(dayDate), day |-> getDate(dayDate)],
                         x     |-> RatMul(i - 1, pixelsPerDay),
                         width |-> pixelsPerDay]]

\* Header ticks of the "monthly" revision: one tick per day of the window.
generateTimelineHeadersMonthly(view, containerWidth, range) ==
    LET start == range.start
        days == getDaysBetween(range.start, range.end)
        pixelsPerDay == getPixelsPerDay(containerWidth, days)
        current == setHours(start, 0, 0, 0, 0)
    IN  [i \in 1..days |->
            LET dayDate == setDate(current, getDate(start) + (i - 1))
            IN  [date  |-> dayDate,
                 label |-> [day |-> getDate(dayDate)],
                 x     |-> RatMul(i - 1, pixelsPerDay),
                 width |-> pixelsPerDay]]

\* ------------------------------------------------------------------------
\* Task sorting
\* ------------------------------------------------------------------------

\* The groups keep the ascending order when descending is asked for.
compareByDate_GroupsNotReversed(a, b, ascending) ==
    LET aHasEndDate == a.endDate # Undefined
        bHasEndDate == b.endDate # Undefined
        aDate == IF aHasEndDate THEN a.endDate ELSE a.startDate
        bDate == IF bHasEndDate THEN b.endDate ELSE b.startDate
    IN  IF aHasEndDate /\ ~bHasEndDate THEN -1
        ELSE IF ~aHasEndDate /\ bHasEndDate THEN 1
        ELSE IF Before(aDate, bDate) THEN (IF ascending THEN -1 ELSE 1)
        ELSE IF Before(bDate, aDate) THEN (IF ascending THEN 1 ELSE -1)
        ELSE IF Before(a.startDate, b.startDate) THEN (IF ascending THEN -1 ELSE 1)
        ELSE IF Before(b.startDate, a.startDate) THEN (IF ascending THEN 1 ELSE -1)
        ELSE 0

\* The comparator sortTasksByDate passes to sort.
compareByDate(a, b, ascending) ==
    LET aHasEndDate == a.endDate # Undefined
        bHasEndDate == b.endDate # Undefined
        aDate == IF aHasEndDate THEN a.endDate ELSE a.startDate
        bDate == IF bHasEndDate THEN b.endDate ELSE b.startDate
    IN  IF aHasEndDate /\ ~bHasEndDate THEN (IF ascending THEN -1 ELSE 1)
        ELSE IF ~aHasEndDate /\ bHasEndDate THEN (IF ascending THEN 1 ELSE -1)
        ELSE IF Before(aDate, bDate) THEN (IF ascending THEN -1 ELSE 1)
        ELSE IF Before(bDate, aDate) THEN (IF ascending THEN 1 ELSE -1)
        ELSE IF Before(a.startDate, b.startDate) THEN (IF ascending THEN -1 ELSE 1)
        ELSE IF Before(b.startDate, a.startDate) THEN (IF ascending THEN 1 ELSE -1)
        ELSE 0

\* Array.prototype.sort with that comparator.  The sort is stable, so its
\* result is the one an insertion sort gives: each element goes after the
\* elements that do not compare greater than it.
RECURSIVE InsertByDate(_, _, _)
InsertByDate(task, sorted, ascending) ==
    IF sorted = <<>> THEN <<task>>
    ELSE IF compareByDate(Head(sorted), task, ascending) <= 0
         THEN <<Head(sorted)>> \o InsertByDate(task, Tail(sorted), ascending)
         ELSE <<task>> \o sorted

RECURSIVE SortByDate(_, _)
SortByDate(array, ascending) ==
    IF array = <<>> THEN <<>>
    ELSE InsertByDate(array[Len(array)],
                      SortByDate(SubSeq(array, 1, Len(array) - 1), ascending),
                      ascending)

\* sortTasksByDate: [...tasks] is a new array and sort works in place on
\* it.  The result is held with the array passed in as the call leaves
\* it.
sortTasksByDate(tasks, ascending) ==
    [sorted |-> SortByDate(tasks, ascending), tasks |-> tasks]

\* ------------------------------------------------------------------------
\* GanttChart component
\* ------------------------------------------------------------------------

VARIABLES
    rev,            \* revision of the utilities and of App: "views" or "monthly"
    now,            \* the clock read by `new Date()` during the session
    view,           \* App's view state: [type, startDate, endDate]
    allTasks,       \* projects.flatMap(p => p.tasks), the chart's task sequence
    timelineWidth,  \* the chart's timelineWidth state
    display,        \* what the last render of the chart produced
    call,           \* arguments of a direct call of a layout function
    ret,            \* result of that call
    tz,             \* offset of the local zone from UTC, in milliseconds
    vacationTable,  \* rows of the vacation_requests table
    vacationRequests, \* the chart's vacationRequests state
    vacationQuery,  \* the most recently issued vacation query, while in flight
    elementWidth,   \* offsetWidth of the timeline header element in the page's layout
    mountPending,   \* the mount effect has not run yet
    staleQueries,   \* vacation queries issued earlier and still in flight
    latestOutcome   \* how the most recently issued query ended: "none", "data" or "error"

chartVars == <<rev, now, view, allTasks, timelineWidth, display, elementWidth, mountPending>>

vacationVars == <<tz, vacationTable, vacationRequests, vacationQuery, staleQueries, latestOutcome>>

vars == <<rev, now, view, allTasks, timelineWidth, display, call, ret,
          tz, vacationTable, vacationRequests, vacationQuery,
          elementWidth, mountPending, staleQueries, latestOutcome>>

\* useState(1000) of timelineWidth.
InitialTimelineWidth == 1000

\* Widths the timeline header element is measured at.
Widths == {40, 700}

\* Instants a session of the chart takes place at: Sunday 2024-12-29
\* 09:00 and Wednesday 2025-01-01 00:00.  A session is short: every
\* render of it reads the same clock value.
ClockInstants ==
    {Instant(FirstOfMonth(2024, 11) + 28, NineAM),
     Instant(FirstOfMonth(2025, 0), 0)}

ViewTypes == {"day", "week", "month", "quarter"}

\* The window resolved by the revision's calculateTimelineRange.
TimelineRange(r, v, t) ==
    IF r = "views" THEN calculateTimelineRange(v, t) ELSE calculateTimelineRangeMonthly(v, t)

TimelineHeaders(r, v, w, range) ==
    IF r = "views" THEN generateTimelineHeaders(v, w, range)
                   ELSE generateTimelineHeadersMonthly(v, w, range)

\* t plus n calendar days.
AddDays(t, n) == Instant(t.day + n, t.ms)

\* The kept positions come out in reverse order.
RECURSIVE FilterNotNull_Reversed(_)
FilterNotNull_Reversed(seq) ==
    IF seq = <<>> THEN <<>>
    ELSE IF Head(seq) = Null THEN FilterNotNull_Reversed(Tail(seq))
         ELSE FilterNotNull_Reversed(Tail(seq)) \o <<Head(seq)>>

\* .filter(pos => pos !== null)
RECURSIVE FilterNotNull(_)
FilterNotNull(seq) ==
    IF seq = <<>> THEN <<>>
    ELSE IF Head(seq) = Null THEN FilterNotNull(Tail(seq))
         ELSE <<Head(seq)>> \o FilterNotNull(Tail(seq))

\* Every task is given row 0.
MapTaskPositions_RowZero(tasks, timelineStart, timelineEnd, pixelsPerDay) ==
    [i \in 1..Len(tasks) |->
        calculateTaskPosition(tasks[i], timelineStart, timelineEnd, pixelsPerDay,
                              0, DefaultRowHeight)]

\* allTasks.map((task, index) => calculateTaskPosition(task, start, end,
\* pixelsPerDay, index)); array indices start at 0.
MapTaskPositions(tasks, timelineStart, timelineEnd, pixelsPerDay) ==
    [i \in 1..Len(tasks) |->
        calculateTaskPosition(tasks[i], timelineStart, timelineEnd, pixelsPerDay,
                              i - 1, DefaultRowHeight)]

\* Only Sunday counts as weekend.
RECURSIVE WeekendBands_SundayOnly(_)
WeekendBands_SundayOnly(headers) ==
    IF headers = <<>> THEN <<>>
    ELSE LET header == Head(headers)
             dayOfWeek == getDay(header.date)
             isWeekend == dayOfWeek = 0
         IN  IF ~isWeekend THEN WeekendBands_SundayOnly(Tail(headers))
             ELSE <<[x |-> header.x, width |-> header.width]>> \o WeekendBands_SundayOnly(Tail(headers))

\* timelineHeaders.map(...) of the chart body: a background band at the
\* tick's x and width for every tick whose date is a Saturday or Sunday.
RECURSIVE WeekendBands(_)
WeekendBands(headers) ==
    IF headers = <<>> THEN <<>>
    ELSE LET header == Head(headers)
             dayOfWeek == getDay(header.date)
             isWeekend == dayOfWeek = 0 \/ dayOfWeek = 6
         IN  IF ~isWeekend THEN WeekendBands(Tail(headers))
             ELSE <<[x |-> header.x, width |-> header.width]>> \o WeekendBands(Tail(headers))

\* Offsets of the local zone from UTC: five hours behind, none, two hours
\* ahead.
TimeZones == {-5 * 60 * 60 * 1000, 0, 2 * 60 * 60 * 1000}

\* date.toISOString().split('T')[0]: the UTC calendar day of a local
\* instant, as a day number.
toISODate(t, zone) ==
    LET utcMs == t.ms - zone
    IN  IF utcMs < 0 THEN t.day - 1
        ELSE IF utcMs >= MsPerDay THEN t.day + 1
        ELSE t.day

\* new Date('YYYY-MM-DD'): 00:00 UTC of that day, as a local instant.
ParseISODate(d, zone) ==
    IF zone < 0 THEN Instant(d - 1, MsPerDay + zone) ELSE Instant(d, zone)

NoQuery == [query |-> "none"]

\* The filters of the query loadVacations sends for a view.
VacationQuery(v, zone) ==
    [status |-> "approved",
     gte_end_date   |-> toISODate(v.startDate, zone),
     lte_start_date |-> toISODate(v.endDate, zone)]

\* The rows the table returns for a query.
QueryRows(table, q) ==
    {row \in table : /\ row.status = q.status
                     /\ row.end_date >= q.gte_end_date
                     /\ row.start_date <= q.lte_start_date}

\* data.map(req => ({..., start_date: new Date(req.start_date), end_date:
\* new Date(req.end_date), ...})).  The rows come in no stated order and
\* are held as a set.
FormatVacations(data, zone) ==
    {[id         |-> req.id,
      start_date |-> ParseISODate(req.start_date, zone),
      end_date   |-> ParseISODate(req.end_date, zone)] : req \in data}

\* The first and last instant of a vacation's days.
vacStart(vacation) == setHours(vacation.start_date, 0, 0, 0, 0)

vacEnd(vacation) == setHours(vacation.end_date, 23, 59, 59, 999)

\* The band of one vacation that passed the filter.
VacationBand(vacation, timelineStart, timelineEnd, pixelsPerDay) ==
    LET startDate == IF Before(vacStart(vacation), timelineStart)
                     THEN timelineStart ELSE vacStart(vacation)
        endDate == IF Before(timelineEnd, vacEnd(vacation))
                   THEN timelineEnd ELSE vacEnd(vacation)
        daysFromStart == getDaysBetween(timelineStart, startDate)
        vacationDays == getDaysBetween(startDate, endDate) + 1
    IN  [id    |-> vacation.id,
         x     |-> RatMul(daysFromStart, pixelsPerDay),
         width |-> RatMul(vacationDays, pixelsPerDay)]

\* vacationRequests.filter(...).map(...) of the chart body.
VacationBands(vacations, timelineStart, timelineEnd, pixelsPerDay) ==
    {VacationBand(vacation, timelineStart, timelineEnd, pixelsPerDay) :
        vacation \in {v \in vacations : /\ AtOrBefore(vacStart(v), timelineEnd)
                                        /\ AtOrBefore(timelineStart, vacEnd(v))}}

\* What a render shows, from the values it computed.
Rendered(range, days, pixelsPerDay, timelineHeaders, taskPositions, tasks, vacations) ==
    LET empty == Len(tasks) = 0
    IN  [timelineStart |-> range.start,
         timelineEnd   |-> range.end,
         days          |-> days,
         pixelsPerDay  |-> pixelsPerDay,
         taskPositions |-> taskPositions,
         placeholder   |-> empty,
         headerCells   |-> IF empty THEN <<>> ELSE timelineHeaders,
         sidebarRows   |-> IF empty THEN <<>> ELSE [i \in 1..Len(tasks) |-> tasks[i].id],
         weekendBands  |-> IF empty THEN <<>> ELSE WeekendBands(timelineHeaders),
         vacationBands |-> IF empty THEN {}
                           ELSE VacationBands(vacations, range.start, range.end, pixelsPerDay),
         bars          |-> IF empty THEN <<>> ELSE taskPositions]

\* The chart is returned even when there is no task.
Render_NoPlaceholder(r, t, v, tasks, width, vacations) ==
    LET range == TimelineRange(r, v, t)
        days == getDaysBetween(range.start, range.end)
        pixelsPerDay == getPixelsPerDay(width, days)
        timelineHeaders == TimelineHeaders(r, v, width, TimelineRange(r, v, t))
        taskPositions == FilterNotNull(MapTaskPositions(tasks, range.start, range.end, pixelsPerDay))
    IN  [Rendered(range, days, pixelsPerDay, timelineHeaders, taskPositions, tasks, vacations)
            EXCEPT !.placeholder = FALSE,
                   !.headerCells = timelineHeaders,
                   !.weekendBands = WeekendBands(timelineHeaders),
                   !.vacationBands =
                        VacationBands(vacations, range.start, range.end, pixelsPerDay)]

\* One render of GanttChart.  The window, the scale, the headers and the
\* task positions are computed on every render; the placeholder is
\* returned instead of the chart when there is no task.
Render(r, t, v, tasks, width, vacations) ==
    LET range == TimelineRange(r, v, t)
        days == getDaysBetween(range.start, range.end)
        pixelsPerDay == getPixelsPerDay(width, days)
        timelineHeaders == TimelineHeaders(r, v, width, TimelineRange(r, v, t))
        taskPositions == FilterNotNull(MapTaskPositions(tasks, range.start, range.end, pixelsPerDay))
    IN  Rendered(range, days, pixelsPerDay, timelineHeaders, taskPositions, tasks, vacations)

\* One render of GanttChart during which the clock moves: the chart body
\* resolves the window with `new Date()` = t, and generateTimelineHeaders
\* resolves it again, on its own, with `new Date()` = tHeaders.
RenderAcrossClock(r, t, tHeaders, v, tasks, width, vacations) ==
    LET range == TimelineRange(r, v, t)
        days == getDaysBetween(range.start, range.end)
        pixelsPerDay == getPixelsPerDay(width, days)
        timelineHeaders == TimelineHeaders(r, v, width, TimelineRange(r, v, tHeaders))
        taskPositions == FilterNotNull(MapTaskPositions(tasks, range.start, range.end, pixelsPerDay))
    IN  Rendered(range, days, pixelsPerDay, timelineHeaders, taskPositions, tasks, vacations)

\* timelineRef.current is set exactly while the chart (not the
\* placeholder) is rendered.
HasTimelineRef(d) == ~d.placeholder

\* The view App creates on mount.
InitialView(r, t) ==
    IF r = "views"
    THEN [type |-> "month", startDate |-> t, endDate |-> t]
    ELSE [type      |-> "month",
          startDate |-> NewDate(getFullYear(t), getMonth(t), 1),
          endDate   |-> NewDate(getFullYear(t), getMonth(t) + 1, 0)]

\* Estimated hours a task form can hold.
EstimatedHoursSet == {0, 1, 9, 16}

\* Tasks a user adds, placed relative to the window [ws, we] on display:
\* one covering the window with ten days to spare on both sides, an
\* open-ended one starting exactly at the window end, and one that ended
\* the day before the window.
CandidateTasks(ws, we, id) ==
    {[id |-> id, startDate |-> AddDays(ws, -10), endDate |-> AddDays(we, 10), estimatedHours |-> Undefined],
     [id |-> id, startDate |-> we, endDate |-> Undefined, estimatedHours |-> [hours |-> 1]],
     [id |-> id, startDate |-> AddDays(ws, -10), endDate |-> AddDays(ws, -1), estimatedHours |-> [hours |-> 16]]}

NoCall == [fn |-> "none"]

Pending == [pending |-> TRUE]

\* The chart right after it was mounted: the first render, then the mount
\* effect's updateWidth, which measures the timeline element when the
\* first render produced it and lets the chart render again.
Init ==
    /\ rev \in {"views", "monthly"}
    /\ now \in ClockInstants
    /\ view = InitialView(rev, now)
    /\ LET range == TimelineRange(rev, view, now)
       IN  allTasks \in {<<>>} \cup {<<t>> : t \in CandidateTasks(range.start, range.end, 1)}
    /\ elementWidth \in Widths
    /\ timelineWidth = IF allTasks = <<>> THEN InitialTimelineWidth ELSE elementWidth
    /\ mountPending = FALSE
    /\ tz = 0
    /\ vacationTable = {}
    /\ vacationRequests = {}
    /\ vacationQuery = NoQuery
    /\ staleQueries = {}
    /\ latestOutcome = "none"
    /\ display = Render(rev, now, view, allTasks, timelineWidth, vacationRequests)
    /\ call = NoCall
    /\ ret = Pending

\* A task is added to the displayed projects; the chart renders again.
AddTask ==
    /\ Len(allTasks) < MaxTasks
    /\ \E t \in CandidateTasks(display.timelineStart, display.timelineEnd, Len(allTasks) + 1) :
          allTasks' = Append(allTasks, t)
    /\ display' = Render(rev, now, view, allTasks', timelineWidth, vacationRequests)
    /\ UNCHANGED <<rev, now, view, timelineWidth, elementWidth, mountPending, call, ret, vacationVars>>

\* handleViewChange of the "views" revision; the chart renders again.
handleViewChange ==
    /\ rev = "views"
    /\ \E type \in ViewTypes :
          /\ type # view.type
          /\ view' = [view EXCEPT !.type = type]
    /\ display' = Render(rev, now, view', allTasks, timelineWidth, vacationRequests)
    /\ UNCHANGED <<rev, now, allTasks, timelineWidth, elementWidth, mountPending, call, ret, vacationVars>>

\* The window is resized, which gives the timeline element a width, and
\* the resize listener runs updateWidth, which sets timelineWidth to the
\* element's measured width only when the element exists; a changed state
\* renders the chart again.
updateWidth ==
    /\ \E offsetWidth \in Widths :
          /\ elementWidth' = offsetWidth
          /\ timelineWidth' = IF HasTimelineRef(display) THEN offsetWidth ELSE timelineWidth
    /\ display' = IF timelineWidth' # timelineWidth
                  THEN Render(rev, now, view, allTasks, timelineWidth', vacationRequests)
                  ELSE display
    /\ UNCHANGED <<rev, now, view, allTasks, mountPending, call, ret, vacationVars>>

Next == AddTask \/ handleViewChange \/ updateWidth

Spec == Init /\ [][Next]_vars

\* ------------------------------------------------------------------------
\* Chart rendered while the clock crosses a boundary
\* ------------------------------------------------------------------------

\* Pairs of consecutive milliseconds: Sunday 2024-12-29 23:59:59.999 and
\* Monday 2024-12-30 00:00 (a day and a week begin), Tuesday 2024-12-31
\* 23:59:59.999 and Wednesday 2025-01-01 00:00 (a day, a month and a
\* quarter begin).
ClockBoundaries ==
    {<<Instant(FirstOfMonth(2024, 11) + 28, EndOfDayMs), Instant(FirstOfMonth(2024, 11) + 29, 0)>>,
     <<Instant(FirstOfMonth(2024, 11) + 30, EndOfDayMs), Instant(FirstOfMonth(2025, 0), 0)>>}

\* The chart right after it was mounted, in the last millisecond of a day.
InitClock ==
    /\ rev \in {"views", "monthly"}
    /\ now \in {b[1] : b \in ClockBoundaries}
    /\ view = InitialView(rev, now)
    /\ LET range == TimelineRange(rev, view, now)
       IN  allTasks \in {<<>>} \cup {<<t>> : t \in CandidateTasks(range.start, range.end, 1)}
    /\ elementWidth \in Widths
    /\ timelineWidth = IF allTasks = <<>> THEN InitialTimelineWidth ELSE elementWidth
    /\ mountPending = FALSE
    /\ tz = 0
    /\ vacationTable = {}
    /\ vacationRequests = {}
    /\ vacationQuery = NoQuery
    /\ staleQueries = {}
    /\ latestOutcome = "none"
    /\ display = Render(rev, now, view, allTasks, timelineWidth, vacationRequests)
    /\ call = NoCall
    /\ ret = Pending

\* The chart renders again (its parent rendered) while the day ends: the
\* chart body reads the clock before midnight, generateTimelineHeaders
\* after it.
renderAcrossMidnight ==
    /\ \E b \in ClockBoundaries :
          /\ now = b[1]
          /\ now' = b[2]
    /\ display' = RenderAcrossClock(rev, now, now', view, allTasks, timelineWidth,
                                    vacationRequests)
    /\ UNCHANGED <<rev, view, allTasks, timelineWidth, elementWidth, mountPending,
                   call, ret, vacationVars>>

NextClock == renderAcrossMidnight \/ AddTask \/ handleViewChange \/ updateWidth

SpecClock == InitClock /\ [][NextClock]_vars

\* ------------------------------------------------------------------------
\* Chart with vacations
\* ------------------------------------------------------------------------

\* Number of rows the vacation table holds at most.
MaxVacations == 2

\* Rows of vacation_requests, placed relative to the month of t, whose
\* first day is `first` and last day `last`: two days early in the month,
\* a range covering the month with three days to spare, the last day of
\* the month alone, a range that ended before the month, a request that
\* is not approved, and the first two days of the next month.  The form
\* stores start_date <= end_date.
CandidateRows(t) ==
    LET first == FirstOfMonthTable[getFullYear(t)][getMonth(t)]
        last == first + DaysInMonth(getFullYear(t), getMonth(t)) - 1
    IN  {[id |-> 1, status |-> "approved", start_date |-> first + 1, end_date |-> first + 2],
         [id |-> 2, status |-> "approved", start_date |-> first - 3, end_date |-> last + 3],
         [id |-> 3, status |-> "approved", start_date |-> last,      end_date |-> last],
         [id |-> 4, status |-> "approved", start_date |-> first - 5, end_date |-> first - 2],
         [id |-> 5, status |-> "pending",  start_date |-> first + 1, end_date |-> first + 2],
         [id |-> 6, status |-> "approved", start_date |-> last + 1,  end_date |-> last + 2]}

\* The chart right after it was mounted, with a vacation table: the load
\* effect has sent its query for the view's startDate and endDate, and the
\* answer is on its way.
InitVac ==
    /\ rev \in {"views", "monthly"}
    /\ now \in ClockInstants
    /\ tz \in TimeZones
    /\ view = InitialView(rev, now)
    /\ LET range == TimelineRange(rev, view, now)
       IN  allTasks \in {<<>>} \cup {<<t>> : t \in CandidateTasks(range.start, range.end, 1)}
    /\ elementWidth \in Widths
    /\ timelineWidth = IF allTasks = <<>> THEN InitialTimelineWidth ELSE elementWidth
    /\ mountPending = FALSE
    /\ vacationTable \in {T \in SUBSET CandidateRows(now) : Cardinality(T) <= MaxVacations}
    /\ vacationRequests = {}
    /\ vacationQuery = VacationQuery(view, tz)
    /\ staleQueries = {}
    /\ latestOutcome = "none"
    /\ display = Render(rev, now, view, allTasks, timelineWidth, vacationRequests)
    /\ call = NoCall
    /\ ret = Pending

\* The answer of the vacation query arrives with data: the rows are
\* formatted and stored, and the chart renders again.
loadVacationsData ==
    /\ vacationQuery # NoQuery
    /\ vacationRequests' = FormatVacations(QueryRows(vacationTable, vacationQuery), tz)
    /\ vacationQuery' = NoQuery
    /\ latestOutcome' = "data"
    /\ display' = Render(rev, now, view, allTasks, timelineWidth, vacationRequests')
    /\ UNCHANGED <<rev, now, view, allTasks, timelineWidth, elementWidth, mountPending,
                   call, ret, tz, vacationTable, staleQueries>>

NextVac == loadVacationsData \/ handleViewChange \/ updateWidth

SpecVac == InitVac /\ [][NextVac]_vars

\* ------------------------------------------------------------------------
\* Chart whose view dates change while vacation queries are in flight
\* ------------------------------------------------------------------------

\* What loadVacations leaves in vacationRequests when the error of the
\* answer is set.
loadVacationsResult_ErrorClears(response, previous, zone) ==
    IF response.error THEN {}
    ELSE FormatVacations(response.data, zone)

\* What loadVacations leaves in vacationRequests for an answer {data,
\* error}: with an error, or when the request throws, it logs and returns
\* before setVacationRequests; with data it stores the formatted rows.
loadVacationsResult(response, previous, zone) ==
    IF response.error THEN previous
    ELSE FormatVacations(response.data, zone)

\* The startDate and endDate a parent passes in the view: those App
\* creates on mount, and those it would create on the first day of the
\* following month.
ViewDates(r, t) ==
    {InitialView(r, t), InitialView(r, NewDate(getFullYear(t), getMonth(t) + 1, 1))}

\* The chart right after it was mounted with one task in an element 700px
\* wide, in a zone on UTC; the load effect's query is in flight.
InitQueries ==
    /\ InitVac
    /\ Len(allTasks) = 1
    /\ elementWidth = 700
    /\ tz = 0

\* The parent passes a view with another startDate and endDate: the chart
\* renders again and the load effect, whose dependencies changed, sends a
\* query for the new dates.  Nothing cancels the queries sent before.
changeViewDates ==
    /\ \E v \in ViewDates(rev, now) :
          /\ v.startDate # view.startDate \/ v.endDate # view.endDate
          /\ view' = [view EXCEPT !.startDate = v.startDate, !.endDate = v.endDate]
    /\ staleQueries' = IF vacationQuery = NoQuery THEN staleQueries
                       ELSE staleQueries \cup {vacationQuery}
    /\ vacationQuery' = VacationQuery(view', tz)
    /\ latestOutcome' = "none"
    /\ display' = Render(rev, now, view', allTasks, timelineWidth, vacationRequests)
    /\ UNCHANGED <<rev, now, allTasks, timelineWidth, elementWidth, mountPending,
                   call, ret, tz, vacationTable, vacationRequests>>

\* The answer of a query sent before the latest one arrives with data: it
\* is formatted and stored like any other, and the chart renders again.
loadVacationsStaleData ==
    /\ \E q \in staleQueries :
          /\ vacationRequests' =
                 loadVacationsResult([data |-> QueryRows(vacationTable, q), error |-> FALSE],
                                     vacationRequests, tz)
          /\ staleQueries' = staleQueries \ {q}
    /\ display' = Render(rev, now, view, allTasks, timelineWidth, vacationRequests')
    /\ UNCHANGED <<rev, now, view, allTasks, timelineWidth, elementWidth, mountPending,
                   call, ret, tz, vacationTable, vacationQuery, latestOutcome>>

\* A query in flight, the latest or an earlier one, ends with an error or
\* throws; a changed state would render the chart again.
loadVacationsError ==
    /\ \/ /\ vacationQuery # NoQuery
          /\ vacationQuery' = NoQuery
          /\ latestOutcome' = "error"
          /\ UNCHANGED staleQueries
       \/ /\ \E q \in staleQueries : staleQueries' = staleQueries \ {q}
          /\ UNCHANGED <<vacationQuery, latestOutcome>>
    /\ vacationRequests' =
           loadVacationsResult([data |-> Null, error |-> TRUE], vacationRequests, tz)
    /\ display' = IF vacationRequests' # vacationRequests
                  THEN Render(rev, now, view, allTasks, timelineWidth, vacationRequests')
                  ELSE display
    /\ UNCHANGED <<rev, now, view, allTasks, timelineWidth, elementWidth, mountPending,
                   call, ret, tz, vacationTable>>

NextQueries ==
    changeViewDates \/ loadVacationsData \/ loadVacationsStaleData \/ loadVacationsError

SpecQueries == InitQueries /\ [][NextQueries]_vars

\* ------------------------------------------------------------------------

\* Chart from its first render on
\* ------------------------------------------------------------------------

\* The chart after its first render and before its effects ran:
\* timelineWidth is the initial state, whatever the width of the element.
InitMount ==
    /\ rev \in {"views", "monthly"}
    /\ now \in ClockInstants
    /\ view = InitialView(rev, now)
    /\ LET range == TimelineRange(rev, view, now)
       IN  allTasks \in {<<>>} \cup {<<t>> : t \in CandidateTasks(range.start, range.end, 1)}
    /\ elementWidth \in Widths
    /\ timelineWidth = InitialTimelineWidth
    /\ mountPending = TRUE
    /\ tz = 0
    /\ vacationTable = {}
    /\ vacationRequests = {}
    /\ vacationQuery = NoQuery
    /\ staleQueries = {}
    /\ latestOutcome = "none"
    /\ display = Render(rev, now, view, allTasks, timelineWidth, vacationRequests)
    /\ call = NoCall
    /\ ret = Pending

\* The effects of the first render run: updateWidth measures the element
\* if the first render produced it (the resize listener is registered for
\* later), and loadVacations sends its query; a changed state renders the
\* chart again.  The effect has no dependency and never runs again.
mountEffect ==
    /\ mountPending
    /\ mountPending' = FALSE
    /\ timelineWidth' = IF HasTimelineRef(display) THEN elementWidth ELSE timelineWidth
    /\ vacationQuery' = VacationQuery(view, tz)
    /\ display' = IF timelineWidth' # timelineWidth
                  THEN Render(rev, now, view, allTasks, timelineWidth', vacationRequests)
                  ELSE display
    /\ UNCHANGED <<rev, now, view, allTasks, elementWidth, call, ret,
                   tz, vacationTable, vacationRequests, staleQueries, latestOutcome>>

\* Events are handled once the effects of the first render have run.
AfterMount(event) == ~mountPending /\ event

NextMount ==
    \/ mountEffect
    \/ AfterMount(AddTask)
    \/ AfterMount(handleViewChange)
    \/ AfterMount(updateWidth)
    \/ AfterMount(loadVacationsData)

SpecMount == InitMount /\ [][NextMount]_vars

\* The step that clears mountPending; mountEffect is the only action that
\* takes it.
mountEffectRuns == mountPending /\ mountPending' = FALSE

\* React runs the effects of a committed render: the mount effect is not
\* postponed forever.  Resize events, task changes, view changes and the
\* answer of the vacation query are not owed by anyone.
SpecMountFair == SpecMount /\ WF_mountPending(mountEffectRuns)

\* ------------------------------------------------------------------------
\* Direct calls of the layout functions
\* ------------------------------------------------------------------------

\* First day task dates and window bounds are drawn from: 2024-01-30, so
\* that the days that follow cross the end of a month.
FirstDay == FirstOfMonth(2024, 1) - 2

FnInstants == {Instant(d, ms) : d \in FirstDay..(FirstDay + MaxDays - 1), ms \in {0, NineAM}}

FnTasks ==
    [id             : {1},
     startDate      : FnInstants,
     endDate        : FnInstants \cup {Undefined},
     estimatedHours : {Undefined} \cup [hours : EstimatedHoursSet]]

\* Scales: an unmeasured element, 1000px over a month, exactly the minimum
\* bar width, 1000px over a week.
PixelsPerDaySet == {getPixelsPerDay(0, 1), getPixelsPerDay(1000, 31), RatInt(50), getPixelsPerDay(1000, 7)}

TaskPositionCalls ==
    {c \in [fn           : {"calculateTaskPosition"},
            task         : FnTasks,
            timelineStart: FnInstants,
            timelineEnd  : FnInstants,
            pixelsPerDay : PixelsPerDaySet,
            rowIndex     : 0..1,
            rowHeight    : {DefaultRowHeight}] :
        AtOrBefore(c.timelineStart, c.timelineEnd)}

\* Every instant at 00:00, 09:00 and 23:59:59.999 of 2024 and 2025.
RangeInstants ==
    {Instant(d, ms) : d \in 0..(DaysBeforeYear(2026) - 1), ms \in {0, NineAM, EndOfDayMs}}

\* A reference range that does not follow the clock: 2024-01-30 09:00 to
\* 00:00 MaxDays days later.
FixedReference ==
    [startDate |-> Instant(FirstDay, NineAM), endDate |-> Instant(FirstDay + MaxDays, 0)]

\* The reference range of a view passed at instant t: the one App creates
\* on mount, or FixedReference.
ReferenceRange(r, t, fixed) == IF fixed THEN FixedReference ELSE InitialView(r, t)

\* Revision, view type and kind of reference range of a call.  The types
\* are the ones each revision's App sets (App of the "monthly" revision
\* never changes the type), and "year", which TimelineView admits and no
\* App sets.
ViewKinds ==
    ({"views"} \X (ViewTypes \cup {"year"}) \X BOOLEAN)
    \cup ({"monthly"} \X {"month", "year"} \X BOOLEAN)

ViewOf(k, t) ==
    [type      |-> k[2],
     startDate |-> ReferenceRange(k[1], t, k[3]).startDate,
     endDate   |-> ReferenceRange(k[1], t, k[3]).endDate]

TimelineRangeCalls ==
    {[fn |-> "calculateTimelineRange", rev |-> k[1], now |-> t, view |-> ViewOf(k, t)] :
        t \in RangeInstants, k \in ViewKinds}

\* Widths a caller passes: an unmeasured element, the measured widths and
\* the initial state.
ContainerWidths == {0, InitialTimelineWidth} \cup Widths

\* Day counts a caller passes, from below zero to the longest month.
DayCounts == -2..31

PixelsPerDayCalls ==
    [fn : {"getPixelsPerDay"}, containerWidth : ContainerWidths, days : DayCounts]

\* Instants a caller passes to getDaysBetween: the days of FnInstants at
\* 00:00:00.000, 00:00:00.001, 09:00 and 23:59:59.999.
BetweenInstants ==
    {Instant(d, ms) : d \in FirstDay..(FirstDay + MaxDays - 1), ms \in {0, 1, NineAM, EndOfDayMs}}

DaysBetweenCalls == [fn : {"getDaysBetween"}, start : BetweenInstants, end : BetweenInstants]

\* Instants headers are generated at: the clock values of the chart's
\* sessions and the 15th of every month of 2024 and 2025 at 09:00.
HeaderInstants ==
    ClockInstants \cup
    {Instant(FirstOfMonth(y, m) + 14, NineAM) : y \in {2024, 2025}, m \in 0..11}

HeaderCalls ==
    {[fn |-> "generateTimelineHeaders", rev |-> k[1], now |-> t, view |-> ViewOf(k, t),
      containerWidth |-> w] :
        t \in HeaderInstants, k \in ViewKinds, w \in ContainerWidths}

\* Number of tasks in an array passed to sortTasksByDate at most.
MaxSorted == 3

\* Tasks to sort: with and without an end date, on two days.
SortDates == {Instant(FirstDay, 0), Instant(FirstDay + 1, NineAM)}

SortArrays ==
    UNION {[1..n -> [startDate : SortDates, endDate : SortDates \cup {Undefined}]] :
            n \in 0..MaxSorted}

\* The tasks of an array get their position as id.
SortCalls ==
    {[fn |-> "sortTasksByDate",
      tasks |-> [i \in 1..Len(a) |->
                    [id |-> i, startDate |-> a[i].startDate, endDate |-> a[i].endDate]],
      ascending |-> asc] : a \in SortArrays, asc \in BOOLEAN}

InitFn ==
    /\ rev = "views"
    /\ now = Instant(0, 0)
    /\ view = InitialView(rev, now)
    /\ allTasks = <<>>
    /\ timelineWidth = InitialTimelineWidth
    /\ elementWidth = InitialTimelineWidth
    /\ mountPending = FALSE
    /\ tz = 0
    /\ vacationTable = {}
    /\ vacationRequests = {}
    /\ vacationQuery = NoQuery
    /\ staleQueries = {}
    /\ latestOutcome = "none"
    /\ display = Render(rev, now, view, allTasks, timelineWidth, vacationRequests)
    /\ call \in TaskPositionCalls \cup TimelineRangeCalls \cup PixelsPerDayCalls
                \cup DaysBetweenCalls \cup HeaderCalls \cup SortCalls
    /\ ret = Pending

\* The call returns; call holds the argument objects, and so what the
\* function left in them.
CallTaskPosition ==
    /\ call.fn = "calculateTaskPosition"
    /\ ret = Pending
    /\ ret' = calculateTaskPosition(call.task, call.timelineStart, call.timelineEnd,
                                    call.pixelsPerDay, call.rowIndex, call.rowHeight)
    /\ LET after == ArgumentsAfterTaskPosition(call.task, call.timelineStart, call.timelineEnd)
       IN  call' = [call EXCEPT !.task.startDate = after.startDate,
                                !.task.endDate = after.endDate,
                                !.timelineStart = after.timelineStart,
                                !.timelineEnd = after.timelineEnd]
    /\ UNCHANGED <<chartVars, vacationVars>>

CallTimelineRange ==
    /\ call.fn = "calculateTimelineRange"
    /\ ret = Pending
    /\ ret' = TimelineRange(call.rev, call.view, call.now)
    /\ UNCHANGED <<chartVars, call, vacationVars>>

CallPixelsPerDay ==
    /\ call.fn = "getPixelsPerDay"
    /\ ret = Pending
    /\ ret' = getPixelsPerDay(call.containerWidth, call.days)
    /\ UNCHANGED <<chartVars, call, vacationVars>>

\* The number returned is held as [days |-> n].
CallDaysBetween ==
    /\ call.fn = "getDaysBetween"
    /\ ret = Pending
    /\ ret' = [days |-> getDaysBetween(call.start, call.end)]
    /\ UNCHANGED <<chartVars, call, vacationVars>>

\* generateTimelineHeaders resolves the window itself, at the instant of
\* the call.  The array returned is held as [headers |-> seq].
CallTimelineHeaders ==
    /\ call.fn = "generateTimelineHeaders"
    /\ ret = Pending
    /\ ret' = [headers |-> TimelineHeaders(call.rev, call.view, call.containerWidth,
                                            TimelineRange(call.rev, call.view, call.now))]
    /\ UNCHANGED <<chartVars, call, vacationVars>>

\* The call returns; call holds the array passed in as the call left it.
CallSortTasksByDate ==
    /\ call.fn = "sortTasksByDate"
    /\ ret = Pending
    /\ LET done == sortTasksByDate(call.tasks, call.ascending)
       IN  /\ ret' = [sorted |-> done.sorted]
           /\ call' = [call EXCEPT !.tasks = done.tasks]
    /\ UNCHANGED <<chartVars, vacationVars>>

NextFn ==
    \/ CallSortTasksByDate
    \/ CallTaskPosition
    \/ CallTimelineRange
    \/ CallPixelsPerDay
    \/ CallDaysBetween
    \/ CallTimelineHeaders

SpecFn == InitFn /\ [][NextFn]_vars

\* ------------------------------------------------------------------------
\* Properties
\* ------------------------------------------------------------------------

\* A direct call of calculateTaskPosition has returned.
TaskPositionReturned == call.fn = "calculateTaskPosition" /\ ret # Pending

\* A direct call of calculateTimelineRange has returned.
TimelineRangeReturned == call.fn = "calculateTimelineRange" /\ ret # Pending

\* The later and the earlier of two instants.
LaterOf(a, b) == IF Before(a, b) THEN b ELSE a

EarlierOf(a, b) == IF Before(b, a) THEN b ELSE a

\* C1: calculateTaskPosition returns null if and only if the effective end
\* is before the window start or the task starts after the window end.
\* Both tests are strict: a task that starts exactly at the window end, and
\* a task whose effective end is exactly the window start, get a geometry
\* (unless the other test excludes them).
C1_NullIffOutside ==
    TaskPositionReturned =>
        LET effEnd == effectiveEndDate(call.task)
            endsBefore == Before(effEnd, call.timelineStart)
            startsAfter == Before(call.timelineEnd, call.task.startDate)
        IN  /\ (ret = Null) <=> (endsBefore \/ startsAfter)
            /\ (call.task.startDate = call.timelineEnd /\ ~endsBefore) => ret # Null
            /\ (effEnd = call.timelineStart /\ ~startsAfter) => ret # Null
            /\ (call.task.startDate = call.timelineEnd /\ AtOrBefore(call.task.startDate, effEnd))
                    => ret # Null
            /\ (effEnd = call.timelineStart /\ AtOrBefore(call.task.startDate, effEnd))
                    => ret # Null

\* C1 witness: a task that starts exactly at the end of a window of
\* positive length was laid out.
C1_Witness ==
    /\ TaskPositionReturned
    /\ call.task.startDate = call.timelineEnd
    /\ Before(call.timelineStart, call.timelineEnd)
    /\ ret # Null

\* The effective end as the specification words it, with plain day
\* arithmetic: hours present means any number, 0 included.
SpecEffectiveEnd(task) ==
    IF task.endDate # Undefined THEN task.endDate
    ELSE IF task.estimatedHours # Undefined
         THEN AddDays(task.startDate, Ceil(task.estimatedHours.hours, 8))
         ELSE AddDays(task.startDate, 7)

\* C2 as stated: the effective end is the end date when present, otherwise
\* start + ceil(estimatedHours / 8) days for every present estimatedHours
\* (0 included), and start + 7 days only when estimatedHours is absent.
C2_Original ==
    TaskPositionReturned =>
        effectiveEndDate(call.task) = SpecEffectiveEnd(call.task)

\* C2 amended: the effective end is the end date when present; otherwise
\* start + ceil(estimatedHours / 8) days when estimatedHours is present
\* and not 0, and start + 7 days when estimatedHours is absent or 0.
C2_EffectiveEnd ==
    TaskPositionReturned =>
        LET task == call.task
        IN  effectiveEndDate(task) =
                IF task.endDate # Undefined THEN task.endDate
                ELSE IF task.estimatedHours # Undefined /\ task.estimatedHours.hours # 0
                     THEN AddDays(task.startDate, Ceil(task.estimatedHours.hours, 8))
                     ELSE AddDays(task.startDate, 7)

\* C2 witness: an open-ended task estimated at 9 hours that starts on the
\* last day of a month was laid out with an end two days later.
C2_Witness ==
    /\ TaskPositionReturned
    /\ ret # Null
    /\ call.task.endDate = Undefined
    /\ call.task.estimatedHours = [hours |-> 9]
    /\ getMonth(AddDays(call.task.startDate, 1)) # getMonth(call.task.startDate)
    /\ effectiveEndDate(call.task) = AddDays(call.task.startDate, 2)

\* C3: every geometry has width = max(days between the clipped bounds *
\* pixelsPerDay, 50), so at least 50; an open-ended task estimated at one
\* hour is exactly 50 wide whenever pixelsPerDay < 50.
C3_MinimumWidth ==
    (TaskPositionReturned /\ ret # Null) =>
        LET effEnd == effectiveEndDate(call.task)
            clippedStart == LaterOf(call.task.startDate, call.timelineStart)
            clippedEnd == EarlierOf(effEnd, call.timelineEnd)
            span == RatMul(getDaysBetween(clippedStart, clippedEnd), call.pixelsPerDay)
        IN  /\ ret.width = (IF RatLess(span, RatInt(50)) THEN RatInt(50) ELSE span)
            /\ RatLeq(RatInt(50), ret.width)
            /\ (/\ call.task.endDate = Undefined
                /\ call.task.estimatedHours = [hours |-> 1]
                /\ RatLess(call.pixelsPerDay, RatInt(50))) => ret.width = RatInt(50)

\* C3 witness: a one-hour open-ended task lying one whole day inside the
\* window, at a scale between 0 and 50 pixels per day, got width 50.
C3_Witness ==
    /\ TaskPositionReturned
    /\ ret # Null
    /\ call.task.endDate = Undefined
    /\ call.task.estimatedHours = [hours |-> 1]
    /\ RatLess(RatInt(0), call.pixelsPerDay)
    /\ RatLess(call.pixelsPerDay, RatInt(50))
    /\ AtOrBefore(call.timelineStart, call.task.startDate)
    /\ AtOrBefore(AddDays(call.task.startDate, 1), call.timelineEnd)
    /\ ret.width = RatInt(50)

\* C4: for every visible task x = daysBetween(windowStart, max(start,
\* windowStart)) * pixelsPerDay and the width spans max(start, windowStart)
\* to min(effectiveEnd, windowEnd); so x = 0 for every task that starts at
\* or before the window start.
C4_Clipping ==
    (TaskPositionReturned /\ ret # Null) =>
        LET effEnd == effectiveEndDate(call.task)
            clippedStart == LaterOf(call.task.startDate, call.timelineStart)
            clippedEnd == EarlierOf(effEnd, call.timelineEnd)
        IN  /\ ret.x = RatMul(getDaysBetween(call.timelineStart, clippedStart), call.pixelsPerDay)
            /\ ret.width = RatMax(RatMul(getDaysBetween(clippedStart, clippedEnd), call.pixelsPerDay),
                                  RatInt(50))
            /\ AtOrBefore(call.task.startDate, call.timelineStart) => ret.x = RatInt(0)

\* C4 witness: a task that starts before the window and ends after it was
\* laid out at x = 0 at a scale above 50 pixels per day, as wide as the
\* window.
C4_Witness ==
    /\ TaskPositionReturned
    /\ ret # Null
    /\ Before(call.task.startDate, call.timelineStart)
    /\ Before(call.timelineEnd, effectiveEndDate(call.task))
    /\ RatLess(RatInt(50), call.pixelsPerDay)
    /\ Before(call.timelineStart, call.timelineEnd)
    /\ ret.x = RatInt(0)
    /\ ret.width = RatMul(getDaysBetween(call.timelineStart, call.timelineEnd), call.pixelsPerDay)

\* The task covers the displayed window with ten days to spare on both sides.
SpansWindow(task) ==
    /\ task.startDate = AddDays(display.timelineStart, -10)
    /\ task.endDate = AddDays(display.timelineEnd, 10)

\* The width of the whole displayed window: totalWindowDays * pixelsPerDay.
WindowWidth == RatMul(display.days, display.pixelsPerDay)

\* The scale on display is the one the chart computes from its width.
ScaleFromWidth == display.pixelsPerDay = getPixelsPerDay(timelineWidth, display.days)

\* C5 as stated: a task spanning [windowStart - 10 days, windowEnd + 10
\* days] is laid out with x = 0 and width = totalWindowDays * pixelsPerDay,
\* for every window and every container width.
C5_Original ==
    /\ ScaleFromWidth
    /\ \A i \in 1..Len(allTasks) :
          SpansWindow(allTasks[i]) =>
              \E k \in 1..Len(display.bars) :
                  /\ display.bars[k].task = allTasks[i]
                  /\ display.bars[k].x = RatInt(0)
                  /\ display.bars[k].width = WindowWidth

\* C5 amended: such a task is laid out with x = 0 and width = max(
\* totalWindowDays * pixelsPerDay, 50): the width is totalWindowDays *
\* pixelsPerDay whenever that product is at least 50 pixels, and 50
\* otherwise.
C5_SpanningTask ==
    /\ ScaleFromWidth
    /\ \A i \in 1..Len(allTasks) :
          SpansWindow(allTasks[i]) =>
              \E k \in 1..Len(display.bars) :
                  /\ display.bars[k].task = allTasks[i]
                  /\ display.bars[k].x = RatInt(0)
                  /\ display.bars[k].width =
                        (IF RatLeq(RatInt(50), WindowWidth) THEN WindowWidth ELSE RatInt(50))

\* C5 witness: in a chart 700 pixels wide a spanning task is on display
\* with x = 0 and a width of 700, the whole window.
C5_Witness ==
    /\ timelineWidth = 700
    /\ \E k \in 1..Len(display.bars) :
          /\ SpansWindow(display.bars[k].task)
          /\ display.bars[k].x = RatInt(0)
          /\ display.bars[k].width = RatInt(700)
          /\ WindowWidth = RatInt(700)

\* The visibility test as the specification words it.
SpecVisible(task, windowStart, windowEnd) ==
    ~(Before(effectiveEndDate(task), windowStart) \/ Before(windowEnd, task.startDate))

\* The subsequence of the tasks that pass the visibility test.
RECURSIVE VisibleTasks(_, _, _)
VisibleTasks(tasks, windowStart, windowEnd) ==
    IF tasks = <<>> THEN <<>>
    ELSE (IF SpecVisible(Head(tasks), windowStart, windowEnd) THEN <<Head(tasks)>> ELSE <<>>)
         \o VisibleTasks(Tail(tasks), windowStart, windowEnd)

\* C6: the geometry sequence of a layout pass holds exactly one entry for
\* each task that passes the visibility test, in the order of the supplied
\* tasks, and no entry, of whatever width, for a task outside the window.
C6_OnePerVisibleTask ==
    /\ [k \in 1..Len(display.taskPositions) |-> display.taskPositions[k].task]
          = VisibleTasks(allTasks, display.timelineStart, display.timelineEnd)
    /\ \A k \in 1..Len(display.taskPositions) :
          /\ display.taskPositions[k] # Null
          /\ RatLess(RatInt(0), display.taskPositions[k].width)
          /\ SpecVisible(display.taskPositions[k].task, display.timelineStart, display.timelineEnd)

\* C6 witness: of two tasks supplied the first is outside the window and
\* the second inside, and the geometry sequence holds the second alone.
C6_Witness ==
    /\ Len(allTasks) = 2
    /\ ~SpecVisible(allTasks[1], display.timelineStart, display.timelineEnd)
    /\ SpecVisible(allTasks[2], display.timelineStart, display.timelineEnd)
    /\ Len(display.taskPositions) = 1
    /\ display.taskPositions[1].task = allTasks[2]

\* C7: the row of a task is its index in the supplied sequence, hidden
\* tasks included: y = index * 60 and height = 60 - 10, so the vertical
\* extents [y, y + height) of two distinct bars never overlap.
C7_OneRowPerTask ==
    /\ \A k \in 1..Len(display.bars) :
          \E i \in 1..Len(allTasks) :
              /\ allTasks[i] = display.bars[k].task
              /\ display.bars[k].y = (i - 1) * 60
              /\ display.bars[k].height = 60 - 10
    /\ \A k, l \in 1..Len(display.bars) :
          k # l =>
              \/ display.bars[k].y + display.bars[k].height <= display.bars[l].y
              \/ display.bars[l].y + display.bars[l].height <= display.bars[k].y

\* C7 witness: two bars whose dates overlap are on display, in rows 0 and 1.
C7_Witness ==
    /\ Len(display.bars) = 2
    /\ display.bars[1].y = 0
    /\ display.bars[2].y = 60
    /\ display.bars[1].x = display.bars[2].x

\* C8: with no task the chart yields an empty geometry sequence and shows
\* the placeholder: no header strip, no rows, no overlays, no bars.
C8_EmptyTaskSet ==
    allTasks = <<>> =>
        /\ display.taskPositions = <<>>
        /\ display.placeholder
        /\ display.headerCells = <<>>
        /\ display.sidebarRows = <<>>
        /\ display.weekendBands = <<>>
        /\ display.vacationBands = {}
        /\ display.bars = <<>>

\* C8 witness: the chart of the "views" revision was switched to the week
\* view while its task set was empty, and shows the placeholder.
C8_Witness ==
    /\ allTasks = <<>>
    /\ view.type = "week"
    /\ display.placeholder
    /\ display.taskPositions = <<>>
    /\ display.days = 7

\* C9: for the granularities day, week, month and quarter and every
\* current instant the window starts strictly before it ends.
C9_StartBeforeEnd ==
    (TimelineRangeReturned /\ call.view.type \in {"day", "week", "month", "quarter"}) =>
        Before(ret.start, ret.end)

\* C9 witness: the quarter was resolved in December, and its window ends
\* in the following year.
C9_Witness ==
    /\ TimelineRangeReturned
    /\ call.view.type = "quarter"
    /\ getMonth(call.now) = 11
    /\ Before(ret.start, ret.end)
    /\ getFullYear(ret.end) = getFullYear(call.now) + 1

MonthStart(t) == Instant(FirstOfMonthTable[getFullYear(t)][getMonth(t)], 0)

\* 00:00 on the first day of the month after the month of t.
NextMonthStart(t) == AddDays(MonthStart(t), DaysInMonth(getFullYear(t), getMonth(t)))

\* C11 as stated: for the month granularity the window runs from 00:00 on
\* the first day of the current month to 00:00 on the first day of the
\* next month.
C11_Original ==
    (TimelineRangeReturned /\ call.view.type = "month") =>
        /\ ret.start = MonthStart(call.now)
        /\ ret.end = NextMonthStart(call.now)

\* C11: for the month granularity the window starts at 00:00 on the first
\* day of the current month; it ends at 00:00 on the first day of the next
\* month in the "views" revision and at 23:59:59.999 on the last day of
\* the current month in the "monthly" revision; in both its day count is
\* the number of days of the month.
C11_MonthWindow ==
    (TimelineRangeReturned /\ call.view.type = "month") =>
        /\ ret.start = MonthStart(call.now)
        /\ call.rev = "views" => ret.end = NextMonthStart(call.now)
        /\ call.rev = "monthly" =>
                ret.end = Instant(NextMonthStart(call.now).day - 1, EndOfDayMs)
        /\ getDaysBetween(ret.start, ret.end) =
                DaysInMonth(getFullYear(call.now), getMonth(call.now))

\* C11 witness: the month was resolved by the "monthly" revision in
\* December 2024, and its window ends on 31 December at 23:59:59.999.
C11_Witness ==
    /\ TimelineRangeReturned
    /\ call.rev = "monthly"
    /\ call.view.type = "month"
    /\ getFullYear(call.now) = 2024 /\ getMonth(call.now) = 11
    /\ ret.start = Instant(FirstOfMonth(2024, 11), 0)
    /\ ret.end = Instant(FirstOfMonth(2025, 0) - 1, EndOfDayMs)

WithReference(v, w) == [v EXCEPT !.startDate = w.startDate, !.endDate = w.endDate]

\* C13: for the granularities day, week, month and quarter the window is
\* the same for every view of that granularity resolved at the same
\* instant, whatever the view's startDate and endDate are.
C13_WindowIgnoresReference ==
    (TimelineRangeReturned /\ call.view.type \in {"day", "week", "month", "quarter"}) =>
        \A fixed \in BOOLEAN :
            TimelineRange(call.rev,
                          WithReference(call.view, ReferenceRange(call.rev, call.now, fixed)),
                          call.now) = ret

\* C13 witness: a day view whose reference range lies in early 2024 was
\* resolved on 2025-06-15, and its window is that day, the same as for
\* the view App creates on mount.
C13_Witness ==
    /\ TimelineRangeReturned
    /\ call.view.type = "day"
    /\ call.now = Instant(FirstOfMonth(2025, 5) + 14, NineAM)
    /\ call.view.startDate = FixedReference.startDate
    /\ ret.start = Instant(FirstOfMonth(2025, 5) + 14, 0)
    /\ ret = TimelineRange(call.rev, WithReference(call.view, InitialView(call.rev, call.now)), call.now)

\* A direct call of getPixelsPerDay has returned.
PixelsPerDayReturned == call.fn = "getPixelsPerDay" /\ ret # Pending

\* C14: getPixelsPerDay(containerWidth, days) is containerWidth divided by
\* days when days is at least 1 and by 1 when days is zero or below, so
\* the divisor is never zero; the result is strictly positive whenever
\* containerWidth > 0 and days >= 0.
C14_PixelsPerDay ==
    PixelsPerDayReturned =>
        LET divisor == IF call.days <= 0 THEN 1 ELSE call.days
        IN  /\ ret.d > 0
            /\ ret.n * divisor = call.containerWidth * ret.d
            /\ (call.containerWidth > 0 /\ call.days >= 0) => ret.n > 0

\* C14 witness: a width of 700 over zero days gives 700 pixels per day,
\* the same as over one day.
C14_Witness ==
    /\ PixelsPerDayReturned
    /\ call.containerWidth = 700
    /\ call.days = 0
    /\ ret = RatInt(700)
    /\ ret = getPixelsPerDay(700, 1)

\* A direct call of getDaysBetween has returned.
DaysBetweenReturned == call.fn = "getDaysBetween" /\ ret # Pending

\* |b - a| in milliseconds.
ElapsedMs(a, b) == Abs((b.day - a.day) * MsPerDay + (b.ms - a.ms))

\* C15: getDaysBetween(a, b) is the least whole number of days that is at
\* least |b - a|: it is never negative, it is the same with the arguments
\* exchanged, and it is 0 exactly when a = b.
C15_DaysBetween ==
    DaysBetweenReturned =>
        LET elapsed == ElapsedMs(call.start, call.end)
        IN  /\ ret.days >= 0
            /\ ret.days * MsPerDay >= elapsed
            /\ (ret.days - 1) * MsPerDay < elapsed
            /\ ret.days = getDaysBetween(call.end, call.start)
            /\ (ret.days = 0) <=> (call.start = call.end)

\* C15 witness: from 00:00:00.001 of one day back to 00:00 of the day
\* before is one day and a millisecond, counted as 2 days.
C15_Witness ==
    /\ DaysBetweenReturned
    /\ call.start = Instant(FirstDay + 1, 1)
    /\ call.end = Instant(FirstDay, 0)
    /\ ret.days = 2

\* A direct call of generateTimelineHeaders has returned.
HeadersReturned == call.fn = "generateTimelineHeaders" /\ ret # Pending

\* The day count of the window the call's view resolves to.
TotalDays ==
    LET range == TimelineRange(call.rev, call.view, call.now)
    IN  getDaysBetween(range.start, range.end)

\* The tick counts and week labels of the header table.
HeaderTable(headers) ==
    CASE call.view.type = "day" -> Len(headers) = 24
      [] call.view.type = "week" -> Len(headers) = 7
      [] call.view.type = "month" ->
            /\ Len(headers) = Ceil(TotalDays, 7)
            /\ \A i \in 1..Len(headers) : headers[i].label = [week |-> i]
      [] call.view.type = "quarter" -> Len(headers) = 3
      [] OTHER -> Len(headers) = TotalDays

RatAdd(a, b) == Rat(a.n * b.d + b.n * a.d, a.d * b.d)

RECURSIVE SumOfWidths(_)
SumOfWidths(headers) ==
    IF headers = <<>> THEN RatInt(0)
    ELSE RatAdd(Head(headers).width, SumOfWidths(Tail(headers)))

\* Tick i (counted from 0) is at i times its width, and the widths add up
\* to the container width.
TicksTile(headers, containerWidth) ==
    /\ \A i \in 1..Len(headers) : headers[i].x = RatMul(i - 1, headers[i].width)
    /\ SumOfWidths(headers) = RatInt(containerWidth)

\* C17 as stated: for every granularity, reference range and container
\* width the ticks tile the header.
C17_TicksTile == HeadersReturned => TicksTile(ret.headers, call.containerWidth)

\* The ticks tile the header whenever the resolved window is not empty.
C17_TileUnlessEmptyWindow ==
    (HeadersReturned /\ TotalDays > 0) => TicksTile(ret.headers, call.containerWidth)

\* A year view whose reference range is a single instant has no tick at
\* all, in a container of width 1000.
C17_EmptyHeader ==
    /\ HeadersReturned
    /\ call.rev = "views"
    /\ call.view.type = "year"
    /\ call.view.startDate = call.view.endDate
    /\ call.containerWidth = 1000
    /\ ret.headers = <<>>

\* The tick's date is a Saturday or a Sunday; day 0 of the calendar is a
\* Monday.
OnWeekend(header) == header.date.day % 7 \in {5, 6}

\* C18: the weekend bands are, in order, one band for each header tick
\* whose date is a Saturday or Sunday, at that tick's x and with that
\* tick's width; a tick on a weekday has no band.
C18_WeekendBands ==
    LET weekendTicks == SelectSeq(display.headerCells, OnWeekend)
    IN  display.weekendBands =
            [i \in 1..Len(weekendTicks) |->
                [x |-> weekendTicks[i].x, width |-> weekendTicks[i].width]]

\* C18 witness: the week view on display has seven ticks and two bands,
\* over its sixth and seventh tick.
C18_Witness ==
    /\ ~display.placeholder
    /\ view.type = "week"
    /\ Len(display.headerCells) = 7
    /\ Len(display.weekendBands) = 2
    /\ display.weekendBands[1].x = display.headerCells[6].x
    /\ display.weekendBands[2].x = display.headerCells[7].x
    /\ display.weekendBands[2].width = display.pixelsPerDay

\* The answer of the vacation query has been stored and the chart, not
\* the placeholder, is on display.
VacationsShown == vacationQuery = NoQuery /\ ~display.placeholder

\* The days of a row, from 00:00 of its first day to 23:59:59.999 of its
\* last, have an instant in common with the window on display.
OverlapsWindow(row) ==
    /\ AtOrBefore(Instant(row.start_date, 0), display.timelineEnd)
    /\ AtOrBefore(display.timelineStart, Instant(row.end_date, EndOfDayMs))

\* C19 as stated: once the vacations are loaded, the bands on display are
\* those of the approved rows that overlap the window on display, in
\* every view.
C19_BandPerOverlappingVacation ==
    VacationsShown =>
        {band.id : band \in display.vacationBands} =
            {row.id : row \in {r \in vacationTable : r.status = "approved" /\ OverlapsWindow(r)}}

\* The chart of the "views" revision shows the month, the vacations are
\* loaded, an approved vacation of the second and third day of that month
\* is in the table, and no band is on display.
C19_MissingBand ==
    /\ VacationsShown
    /\ rev = "views" /\ tz = 0
    /\ view.type = "month"
    /\ \E row \in vacationTable :
          /\ row.status = "approved"
          /\ row.start_date = display.timelineStart.day + 1
          /\ row.end_date = display.timelineStart.day + 2
          /\ OverlapsWindow(row)
    /\ display.vacationBands = {}

\* The row a band on display was made from.
RowOf(band) == CHOOSE row \in vacationTable : row.id = band.id

\* The row's days clipped to the window on display.
ClippedStart(row) == LaterOf(Instant(row.start_date, 0), display.timelineStart)

ClippedEnd(row) == EarlierOf(Instant(row.end_date, EndOfDayMs), display.timelineEnd)

\* The row's days cover the window on display.
CoversWindow(row) ==
    /\ AtOrBefore(Instant(row.start_date, 0), display.timelineStart)
    /\ AtOrBefore(display.timelineEnd, Instant(row.end_date, EndOfDayMs))

\* C20 as stated: a band is at daysBetween(windowStart, clippedStart) *
\* pixelsPerDay and daysBetween(clippedStart, clippedEnd) * pixelsPerDay
\* wide, so it lies between 0 and totalWindowDays * pixelsPerDay, and the
\* band of a vacation covering the window is as wide as the container.
C20_BandClippedLikeTask ==
    VacationsShown =>
        \A band \in display.vacationBands :
            LET row == RowOf(band)
                rightEdge == RatAdd(band.x, band.width)
            IN  /\ band.x = RatMul(getDaysBetween(display.timelineStart, ClippedStart(row)),
                                   display.pixelsPerDay)
                /\ band.width = RatMul(getDaysBetween(ClippedStart(row), ClippedEnd(row)),
                                       display.pixelsPerDay)
                /\ RatLeq(RatInt(0), band.x)
                /\ RatLeq(rightEdge, WindowWidth)
                /\ CoversWindow(row) => band.width = RatInt(timelineWidth)

\* In a zone on UTC a band is where the claim puts it, and one day's
\* worth of pixels wider.
C20_OneDayWider ==
    (VacationsShown /\ tz = 0) =>
        \A band \in display.vacationBands :
            LET row == RowOf(band)
            IN  /\ band.x = RatMul(getDaysBetween(display.timelineStart, ClippedStart(row)),
                                   display.pixelsPerDay)
                /\ band.width = RatMul(getDaysBetween(ClippedStart(row), ClippedEnd(row)) + 1,
                                       display.pixelsPerDay)

\* The chart of the "monthly" revision, in a zone on UTC and 700 wide,
\* shows a vacation that covers the month as a band wider than 700.
C20_BandWiderThanContainer ==
    /\ VacationsShown
    /\ rev = "monthly" /\ tz = 0
    /\ timelineWidth = 700
    /\ \E band \in display.vacationBands :
          /\ CoversWindow(RowOf(band))
          /\ band.x = RatInt(0)
          /\ band.width = RatMul(display.days + 1, display.pixelsPerDay)
          /\ RatLess(RatInt(700), band.width)

\* The call's task has an end date earlier than its start date.
EndsBeforeItStarts ==
    /\ call.task.endDate # Undefined
    /\ Before(call.task.endDate, call.task.startDate)

\* C22 as stated: a task whose end is earlier than its start is laid out
\* without error, and when it is visible its width is exactly 50.
C22_Original ==
    (TaskPositionReturned /\ EndsBeforeItStarts) =>
        (ret = Null \/ ret.width = RatInt(50))

\* C22: a task whose end is earlier than its start is laid out without
\* error; when it is visible, the span before the floor is the whole
\* number of days covering |start - end| times pixelsPerDay, which is
\* never negative, and the width is the larger of that span and 50.
C22_InvertedTask ==
    (TaskPositionReturned /\ EndsBeforeItStarts) =>
        \/ ret = Null
        \/ LET elapsed == ElapsedMs(call.task.startDate, call.task.endDate)
               days == CHOOSE d \in 0..(MaxDays + 1) :
                            d * MsPerDay >= elapsed /\ (d - 1) * MsPerDay < elapsed
               span == RatMul(days, call.pixelsPerDay)
           IN  /\ days >= 1
               /\ RatLeq(RatInt(0), span)
               /\ ret.width = (IF RatLess(span, RatInt(50)) THEN RatInt(50) ELSE span)

\* C22 witness: a visible task that ends two days before it starts was
\* laid out 100 wide at 50 pixels per day.
C22_Witness ==
    /\ TaskPositionReturned
    /\ EndsBeforeItStarts
    /\ call.task.endDate = AddDays(call.task.startDate, -2)
    /\ call.pixelsPerDay = RatInt(50)
    /\ ret # Null
    /\ ret.width = RatInt(100)

\* C23: a call of calculateTaskPosition leaves task.startDate,
\* task.endDate (absent stays absent), timelineStart and timelineEnd as
\* they were, whether the task is visible or not.
C23_InputsUnaltered ==
    [][call.fn = "calculateTaskPosition" =>
            /\ call'.task = call.task
            /\ call'.timelineStart = call.timelineStart
            /\ call'.timelineEnd = call.timelineEnd]_vars

\* C23 witness: an open-ended task that starts before the window was laid
\* out at x = 0 with a synthesized end, and after the call it still
\* starts before the window and has no end date.
C23_Witness ==
    /\ TaskPositionReturned
    /\ ret # Null
    /\ call.task.endDate = Undefined
    /\ Before(call.task.startDate, call.timelineStart)
    /\ ret.x = RatInt(0)
    /\ ret.task = call.task
    /\ Before(call.task.startDate, effectiveEndDate(call.task))

\* A direct call of sortTasksByDate has returned.
SortReturned == call.fn = "sortTasksByDate" /\ ret # Pending

\* The date a task is ordered by within its group.
OrderDate(task) == IF task.endDate # Undefined THEN task.endDate ELSE task.startDate

\* Two tasks of the same group are in the requested order: by end date
\* (start date when they have none), then by start date.
InOrder(a, b, ascending) ==
    LET first == IF ascending THEN a ELSE b
        second == IF ascending THEN b ELSE a
    IN  \/ Before(OrderDate(first), OrderDate(second))
        \/ /\ OrderDate(first) = OrderDate(second)
           /\ AtOrBefore(first.startDate, second.startDate)

\* The result holds the tasks of the input, each once, and tasks of the
\* same group are in the requested order.
PermutationInGroupOrder ==
    LET sorted == ret.sorted
    IN  /\ Len(sorted) = Len(call.tasks)
        /\ {sorted[i] : i \in 1..Len(sorted)} = {call.tasks[i] : i \in 1..Len(call.tasks)}
        /\ \A i, j \in 1..Len(sorted) :
              (i < j /\ (sorted[i].endDate = Undefined) = (sorted[j].endDate = Undefined))
                  => InOrder(sorted[i], sorted[j], call.ascending)

\* No task without an end date comes before a task with one.
OpenEndedLast(sorted) ==
    \A i, j \in 1..Len(sorted) :
        i < j => ~(sorted[i].endDate = Undefined /\ sorted[j].endDate # Undefined)

\* No task with an end date comes before a task without one.
OpenEndedFirst(sorted) ==
    \A i, j \in 1..Len(sorted) :
        i < j => ~(sorted[i].endDate # Undefined /\ sorted[j].endDate = Undefined)

\* The array passed in is left as it was.
InputArrayKept == [][call.fn = "sortTasksByDate" => call'.tasks = call.tasks]_vars

UnflooredWidth ==
    LET effEnd == effectiveEndDate(call.task)
        start == LaterOf(call.task.startDate, call.timelineStart)
        end == EarlierOf(effEnd, call.timelineEnd)
    IN  RatMul(getDaysBetween(start, end), call.pixelsPerDay)

\* The right edge of the window, in pixels.
RightEdge ==
    RatMul(getDaysBetween(call.timelineStart, call.timelineEnd), call.pixelsPerDay)

\* An emitted bar of a task that starts at or before its effective end and
\* whose span is at least the minimum width.
WideBarEmitted ==
    /\ TaskPositionReturned
    /\ ret # Null
    /\ AtOrBefore(call.task.startDate, effectiveEndDate(call.task))
    /\ RatLeq(RatInt(MinBarWidth), UnflooredWidth)

\* C25: for every task whose start is at or before its effective end, at
\* midnight or not, an emitted bar whose unfloored width is at least 50px
\* stays inside the window: x >= 0 and x + width <= totalWindowDays *
\* pixelsPerDay.
C25_BarInsideWindow ==
    WideBarEmitted =>
        /\ RatLeq(RatInt(0), ret.x)
        /\ RatLeq(RatAdd(ret.x, ret.width), RightEdge)

\* A task from 2024-01-30 09:00 to 2024-02-01 09:00 in the window 2024-01-30
\* 00:00 to 2024-02-01 00:00 at 50px per day: x is one day, the width two days, and the
\* bar ends a day past the right edge.
C25_BarPastRightEdge ==
    /\ WideBarEmitted
    /\ call.timelineStart = Instant(FirstDay, 0)
    /\ call.timelineEnd = Instant(FirstDay + 2, 0)
    /\ call.task.startDate = Instant(FirstDay, NineAM)
    /\ call.task.endDate = Instant(FirstDay + 2, NineAM)
    /\ call.pixelsPerDay = RatInt(50)
    /\ ret.x = RatInt(50)
    /\ ret.width = RatInt(100)
    /\ RightEdge = RatInt(100)

\* With every instant at midnight the bar stays inside the window.
C25_InsideAtMidnight ==
    (/\ WideBarEmitted
     /\ call.timelineStart.ms = 0
     /\ call.timelineEnd.ms = 0
     /\ call.task.startDate.ms = 0
     /\ effectiveEndDate(call.task).ms = 0) =>
        /\ RatLeq(RatInt(0), ret.x)
        /\ RatLeq(RatAdd(ret.x, ret.width), RightEdge)

\* The window and the scale the chart lays bars out with for the call's
\* view and container width.
ChartWindow == TimelineRange(call.rev, call.view, call.now)

ChartPixelsPerDay == getPixelsPerDay(call.containerWidth, TotalDays)

\* The tick is where a bar starting on the tick's date would start.
TickOnScale(tick) ==
    tick.x = RatMul(getDaysBetween(ChartWindow.start, tick.date), ChartPixelsPerDay)

\* The granularities with one tick per day or per week: week, month and the
\* fallback (any type other than day, week, month and quarter).
DayOrWeekTicks == call.view.type \notin {"day", "quarter"}

\* C26: for every tick generated for the week, month and fallback
\* granularities, tick.x equals daysBetween(windowStart, tick.date) *
\* pixelsPerDay, the coordinate of task bars.
C26_TicksOnBarScale ==
    (HeadersReturned /\ DayOrWeekTicks) =>
        \A i \in 1..Len(ret.headers) : TickOnScale(ret.headers[i])

\* The month view of December 2024 at 1000px: the tick of week 2 is dated
\* the 8th, seven days into a window of 31, and is drawn at 1000/5 = 200px
\* while a bar starting on the 8th starts at 7 * 1000/31 px.
C26_WeekTickOffScale ==
    /\ HeadersReturned
    /\ call.rev = "views"
    /\ call.view.type = "month"
    /\ call.containerWidth = 1000
    /\ TotalDays = 31
    /\ ret.headers[2].date = Instant(FirstOfMonth(2024, 11) + 7, 0)
    /\ ret.headers[2].x = RatInt(200)
    /\ RatMul(getDaysBetween(ChartWindow.start, ret.headers[2].date), ChartPixelsPerDay)
           = Rat(7000, 31)

\* The ticks with one tick per day are on the scale of the bars: the week
\* view and the fallback of hoursAggregation.ts, and every view of
\* ganttCalculations.ts.
C26_DayTicksOnBarScale ==
    (HeadersReturned /\ DayOrWeekTicks /\ ~(call.rev = "views" /\ call.view.type = "month")) =>
        \A i \in 1..Len(ret.headers) : TickOnScale(ret.headers[i])

\* The header on display is the one of the window and the scale the bars
\* on display were laid out with.
HeadersOfDisplayedWindow ==
    display.headerCells =
        TimelineHeaders(rev, view, timelineWidth,
                        [start |-> display.timelineStart, end |-> display.timelineEnd])

\* C27: within one render the header ticks and the task bars are computed
\* against the same window and the same pixelsPerDay, also when the clock
\* crosses a day, week, month or quarter boundary between the chart's
\* window resolution and the one inside generateTimelineHeaders.
C27_HeadersAndBarsShareWindow == ~display.placeholder => HeadersOfDisplayedWindow

\* The month view rendered over the end of 2024-12-31: the bars are laid
\* out in the window of December 2024 and the first tick is dated
\* 2025-01-01.
C27_HeadersOfNextMonth ==
    /\ ~display.placeholder
    /\ view.type = "month"
    /\ display.timelineStart = Instant(FirstOfMonth(2024, 11), 0)
    /\ display.headerCells[1].date = Instant(FirstOfMonth(2025, 0), 0)
    /\ Len(display.bars) > 0

\* The header ticks and the bars on display are those of a render with the
\* element's width, the current tasks and the current view.
LayoutCurrent ==
    LET current == Render(rev, now, view, allTasks, elementWidth, vacationRequests)
    IN  /\ display.headerCells = current.headerCells
        /\ display.bars = current.bars

\* C21: after any sequence of width, task-set and view changes, the header
\* ticks and task geometries on display are eventually those computed from
\* the container's current measured width, the current task set and the
\* current view; no layout computed from another width survives.
C21_LayoutFollowsWidth == []<>LayoutCurrent

\* The chart was mounted without tasks in an element 40px wide and a task
\* was added: the header and the bar on display are those of a 1000px
\* layout.
C21_StaleLayout ==
    /\ ~mountPending
    /\ ~LayoutCurrent
    /\ elementWidth = 40
    /\ Len(allTasks) = 1
    /\ display.headerCells =
           Render(rev, now, view, allTasks, InitialTimelineWidth, vacationRequests).headerCells

\* C28: whenever task bars are displayed after the mount effect has run,
\* the width used for layout is the element's measured width and not the
\* initial 1000, also when the chart was mounted without tasks and tasks
\* were added later without a resize event.
C28_LayoutAtMeasuredWidth ==
    (~mountPending /\ ~display.placeholder) => timelineWidth = elementWidth

\* Bars are displayed after the mount effect at the initial width of 1000
\* in an element that measures 700.
C28_DefaultWidthKept ==
    /\ ~mountPending
    /\ ~display.placeholder
    /\ Len(display.bars) > 0
    /\ timelineWidth = InitialTimelineWidth
    /\ elementWidth = 700
    /\ display.pixelsPerDay = getPixelsPerDay(InitialTimelineWidth, display.days)

\* When the first render has a task, the layout on display after the mount
\* effect is always at the element's measured width.
C28_MeasuredWhenMountedWithTasks ==
    (~mountPending /\ ~display.placeholder /\ timelineWidth # elementWidth) =>
        timelineWidth = InitialTimelineWidth

\* The answer the table gives to the query for the current view.
LatestResponse == FormatVacations(QueryRows(vacationTable, VacationQuery(view, tz)), tz)

\* No vacation query is in flight.
AllAnswered == vacationQuery = NoQuery /\ staleQueries = {}

\* C29: when the view's startDate/endDate change while an earlier query is
\* in flight, the vacation set held once every answer has arrived is the
\* response to the most recently issued query (when that query returned
\* data): an older response that arrives later does not overwrite it.
C29_LatestResponseWins ==
    (AllAnswered /\ latestOutcome = "data") => vacationRequests = LatestResponse

\* Every query has been answered, the latest one with data, and the
\* vacations held are the answer to the query of the view the chart was
\* mounted with, which is not the answer to the query of the current view.
C29_OlderResponseShown ==
    /\ AllAnswered
    /\ latestOutcome = "data"
    /\ view # InitialView(rev, now)
    /\ vacationRequests # LatestResponse
    /\ vacationRequests =
           FormatVacations(QueryRows(vacationTable, VacationQuery(InitialView(rev, now), tz)), tz)

\* The bars and the header ticks on display are those of a render with the
\* answer to the latest query stored.
LaidOutAsWithData ==
    LET success == Render(rev, now, view, allTasks, timelineWidth, LatestResponse)
    IN  /\ display.bars = success.bars
        /\ display.headerCells = success.headerCells
        /\ display.placeholder = success.placeholder

\* C30: when a vacation query returns an error or throws, the vacation set
\* held before is left as it is (and with it the bands on display), and
\* the task bars and header ticks on display are those the chart would
\* show had the query returned data.
C30_ErrorLeavesChart ==
    /\ [][loadVacationsError =>
              /\ vacationRequests' = vacationRequests
              /\ display' = display]_vars
    /\ [](latestOutcome = "error" => LaidOutAsWithData)

\* The latest query ended in error while vacations of an earlier answer
\* are held and shown as bands next to a bar.
C30_Witness ==
    /\ latestOutcome = "error"
    /\ vacationRequests # {}
    /\ display.vacationBands # {}
    /\ Len(display.bars) > 0

====
